---- MODULE Spec2Model ----
(***************************************************************************)
(* WheelBuilder of poetry/core/masonry/builders/wheel.py as a state        *)
(* machine.  build() is split at the calls that touch the file system, so  *)
(* that every intermediate state of the destination path and of the        *)
(* temporary archive can be observed, and every such call may raise.       *)
(*                                                                         *)
(* Strings are sequences of character codes (Python str / bytes), paths    *)
(* are sequences of components (pathlib parts).                            *)
(***************************************************************************)
EXTENDS Naturals, Sequences, FiniteSets

(***************************************************************************)
(* Bounds of the model.                                                    *)
(***************************************************************************)
\* build() calls explored in one behaviour
MaxBuilds == 2
\* include rules a project declares
MaxIncludes == 2

(***************************************************************************)
(* String literals of the source, as character codes.                      *)
(***************************************************************************)
\* "\n"
NL == <<10>>
\* ","
Comma == <<44>>
\* "/"
Slash == <<47>>
\* "\\", os.sep of Windows
Backslash == <<92>>
\* "-"
Dash == <<45>>
\* " "
Space == <<32>>
\* "["  "]"
LBracket == <<91>>
RBracket == <<93>>
\* "Wheel-Version: 1.0\n"
WheelVersionLine == <<87, 104, 101, 101, 108, 45, 86, 101, 114, 115, 105, 111, 110, 58, 32, 49, 46, 48, 10>>
\* "Generator: poetry "
GeneratorPrefix == <<71, 101, 110, 101, 114, 97, 116, 111, 114, 58, 32, 112, 111, 101, 116, 114, 121, 32>>
\* "Root-Is-Purelib: "
PurelibPrefix == <<82, 111, 111, 116, 45, 73, 115, 45, 80, 117, 114, 101, 108, 105, 98, 58, 32>>
\* "Tag: "
TagPrefix == <<84, 97, 103, 58, 32>>
\* "true" "false"
StrTrue == <<116, 114, 117, 101>>
StrFalse == <<102, 97, 108, 115, 101>>
\* "py2.py3" "py3" "none" "any"
StrPy2Py3 == <<112, 121, 50, 46, 112, 121, 51>>
StrPy3 == <<112, 121, 51>>
StrNone == <<110, 111, 110, 101>>
StrAny == <<97, 110, 121>>
\* ".whl" ".dist-info"
StrWhl == <<46, 119, 104, 108>>
StrDistInfo == <<46, 100, 105, 115, 116, 45, 105, 110, 102, 111>>
\* "/entry_points.txt" "/WHEEL" "/METADATA" "/RECORD"
StrEntryPoints == <<47, 101, 110, 116, 114, 121, 95, 112, 111, 105, 110, 116, 115, 46, 116, 120, 116>>
StrWHEEL == <<47, 87, 72, 69, 69, 76>>
StrMETADATA == <<47, 77, 69, 84, 65, 68, 65, 84, 65>>
StrRECORD == <<47, 82, 69, 67, 79, 82, 68>>
\* "sha256="
StrSha256Eq == <<115, 104, 97, 50, 53, 54, 61>>
\* "__pycache__" ".pyc"
StrPycache == <<95, 95, 112, 121, 99, 97, 99, 104, 101, 95, 95>>
StrPyc == <<46, 112, 121, 99>>
\* "COPYING" "LICENSE"
StrCOPYING == <<67, 79, 80, 89, 73, 78, 71>>
StrLICENSE == <<76, 73, 67, 69, 78, 83, 69>>
\* "build" "lib."
StrBuild == <<98, 117, 105, 108, 100>>
StrLibDot == <<108, 105, 98, 46>>

(***************************************************************************)
(* Python's str, list and pathlib operations the builder relies on.        *)
(***************************************************************************)
Last(s) == s[Len(s)]
Front(s) == SubSeq(s, 1, Len(s) - 1)

\* s < t for two str (code point order)
RECURSIVE StrLess(_, _)
StrLess(s, t) ==
    IF t = <<>> THEN FALSE
    ELSE IF s = <<>> THEN TRUE
    ELSE IF s[1] # t[1] THEN s[1] < t[1]
    ELSE StrLess(Tail(s), Tail(t))

\* p < q for two paths: pathlib compares the lists of components
RECURSIVE PartsLess(_, _)
PartsLess(p, q) ==
    IF q = <<>> THEN FALSE
    ELSE IF p = <<>> THEN TRUE
    ELSE IF p[1] # q[1] THEN StrLess(p[1], q[1])
    ELSE PartsLess(Tail(p), Tail(q))

\* str(path) / path.as_posix(): the components joined by "/"
RECURSIVE AsPosix(_)
AsPosix(p) ==
    IF p = <<>> THEN <<>>
    ELSE IF Len(p) = 1 THEN p[1]
    ELSE p[1] \o Slash \o AsPosix(Tail(p))

\* str(path) on a host whose os.sep is sep
RECURSIVE StrPath(_, _)
StrPath(p, sep) ==
    IF p = <<>> THEN <<>>
    ELSE IF Len(p) = 1 THEN p[1]
    ELSE p[1] \o sep \o StrPath(Tail(p), sep)

\* s.replace(old, new) for one-character strings
Replace(s, old, new) == [i \in 1..Len(s) |-> IF <<s[i]>> = old THEN new[1] ELSE s[i]]

\* sub in s
Contains(s, sub) ==
    \E i \in 0..(Len(s) - Len(sub)) : SubSeq(s, i + 1, i + Len(sub)) = sub

StartsWith(s, pre) ==
    Len(pre) <= Len(s) /\ SubSeq(s, 1, Len(pre)) = pre

\* path.name and path.suffix
Name(p) == IF p = <<>> THEN <<>> ELSE Last(p)
Suffix(p) ==
    LET n == Name(p)
        dots == {i \in 1..Len(n) : n[i] = 46}
    IN  IF dots = {} THEN <<>>
        ELSE LET i == CHOOSE k \in dots : \A j \in dots : j <= k
             IN  IF 1 < i /\ i < Len(n) THEN SubSeq(n, i, Len(n)) ELSE <<>>

\* path.relative_to(base)
RelativeTo(p, base) == SubSeq(p, Len(base) + 1, Len(p))
IsUnder(p, base) == StartsWith(p, base)

\* s.replace(" ", "")
RECURSIVE RemoveSpaces(_)
RemoveSpaces(s) ==
    IF s = <<>> THEN <<>>
    ELSE IF s[1] = 32 THEN RemoveSpaces(Tail(s))
    ELSE <<s[1]>> \o RemoveSpaces(Tail(s))

\* str(n) for a non-negative int
RECURSIVE Dec(_)
Dec(n) == IF n < 10 THEN <<48 + n>> ELSE Dec(n \div 10) \o <<48 + (n % 10)>>

\* "-".join(parts)
RECURSIVE JoinDash(_)
JoinDash(parts) ==
    IF parts = <<>> THEN <<>>
    ELSE IF Len(parts) = 1 THEN parts[1]
    ELSE parts[1] \o Dash \o JoinDash(Tail(parts))

\* s.split(sep) for a one-character separator
RECURSIVE Split(_, _)
Split(s, sep) ==
    LET hits == {i \in 1..Len(s) : s[i] = sep}
    IN  IF hits = {} THEN <<s>>
        ELSE LET i == CHOOSE k \in hits : \A j \in hits : k <= j
             IN  <<SubSeq(s, 1, i - 1)>> \o Split(SubSeq(s, i + 1, Len(s)), sep)

\* the lines of a text that ends every line with "\n"
Lines(text) == Front(Split(text, 10))

RECURSIVE SeqToSet(_)
SeqToSet(s) == IF s = <<>> THEN {} ELSE {s[1]} \cup SeqToSet(Tail(s))

\* all orders of the elements of a set, as sequences
RECURSIVE Orders(_)
Orders(S) ==
    IF S = {} THEN {<<>>}
    ELSE UNION {{<<x>> \o o : o \in Orders(S \ {x})} : x \in S}

\* strs as they were declared, were sorted() left out
DeclaredOrder(s) == s

\* sorted(strs): a stable insertion sort under str order
RECURSIVE InsertStr(_, _)
InsertStr(x, s) ==
    IF s = <<>> THEN <<x>>
    ELSE IF StrLess(x, s[1]) THEN <<x>> \o s
    ELSE <<s[1]>> \o InsertStr(x, Tail(s))
RECURSIVE SortedStrs(_)
SortedStrs(s) == IF s = <<>> THEN <<>> ELSE InsertStr(Last(s), SortedStrs(Front(s)))

(***************************************************************************)
(* Python values that may be None: build_script is None or a str.          *)
(***************************************************************************)
PyNone == [is_none |-> TRUE, str |-> <<>>]
PyStr(s) == [is_none |-> FALSE, str |-> s]
\* bool(v): None and "" are falsy
Truthy(v) == ~v.is_none /\ v.str # <<>>

(***************************************************************************)
(* The project on disk.  self._path is the project root; every file is a   *)
(* record of its full path, its st_mode and its bytes.                      *)
(***************************************************************************)
\* self._path: "proj"
ProjectPath == <<<<112, 114, 111, 106>>>>
\* "src", "a", "b", "a-b", "c", "c.pyc", "d", "lib.x", "lib.y"
NameSrc == <<115, 114, 99>>
NameA == <<97>>
NameB == <<98>>
NameADashB == <<97, 45, 98>>
NameC == <<99>>
NameCPyc == <<99, 46, 112, 121, 99>>
NameD == <<100>>
NameLibX == <<108, 105, 98, 46, 120>>
NameLibY == <<108, 105, 98, 46, 121>>

\* st_mode values: a directory 0o040755, regular files 0o100644 and 0o100755
ModeDir == [ftype |-> 4, perm |-> 493]
ModeFile == [ftype |-> 8, perm |-> 420]
ModeExec == [ftype |-> 8, perm |-> 493]
\* 0o666, 0o4755 (setuid) and 0o641 (executable by others only)
ModeWorldWritable == [ftype |-> 8, perm |-> 438]
ModeSetuid == [ftype |-> 8, perm |-> 2541]
ModeOtherExec == [ftype |-> 8, perm |-> 417]

File(path, mode, data) == [path |-> path, st_mode |-> mode, data |-> data]

DirA == File(ProjectPath \o <<NameA>>, ModeDir, <<>>)
FileAB == File(ProjectPath \o <<NameA, NameB>>, ModeWorldWritable, <<120>>)
FileACPyc == File(ProjectPath \o <<NameA, NameCPyc>>, ModeFile, <<0>>)
\* proj/a/__pycache__/e, and proj/a/x__pycache__ whose name only holds the marker
DirAPycache == File(ProjectPath \o <<NameA, StrPycache>>, ModeDir, <<>>)
FileAPycacheE == File(ProjectPath \o <<NameA, StrPycache, <<101>>>>, ModeFile, <<5>>)
FileAXPycache == File(ProjectPath \o <<NameA, <<120>> \o StrPycache>>, ModeFile, <<6>>)
DirSrcA == File(ProjectPath \o <<NameSrc, NameA>>, ModeDir, <<>>)
FileSrcAB == File(ProjectPath \o <<NameSrc, NameA, NameB>>, ModeSetuid, <<121, 121>>)
FileADashB == File(ProjectPath \o <<NameADashB>>, ModeOtherExec, <<122>>)
FileC == File(ProjectPath \o <<NameC>>, ModeFile, <<119>>)
FileLicense == File(ProjectPath \o <<StrLICENSE>>, ModeFile, <<77, 73, 84>>)
FileCopying == File(ProjectPath \o <<StrCOPYING>>, ModeFile, <<71, 80, 76>>)

\* what the build command may leave under build/: lib.* directories with
\* their files
LibPath(lib) == ProjectPath \o <<StrBuild, lib>>
LibFile(lib, rel, data) == File(LibPath(lib) \o rel, ModeExec, data)
LibDir(lib, rel) == File(LibPath(lib) \o rel, ModeDir, <<>>)
LibXFiles == {LibDir(NameLibX, <<NameA>>), LibFile(NameLibX, <<NameA, NameB>>, <<1>>),
              LibFile(NameLibX, <<NameD>>, <<2>>)}
LibYFiles == {LibFile(NameLibY, <<NameD>>, <<4>>)}

Disk ==
    {DirA, FileAB, FileACPyc, DirAPycache, FileAPycacheE, FileAXPycache, DirSrcA, FileSrcAB, FileADashB, FileC, FileLicense,
     FileCopying} \cup LibXFiles \cup LibYFiles

FileAt(path) == CHOOSE f \in Disk : f.path = path
\* os.stat(path).st_mode, os.stat(path).st_size, open(path, "rb").read()
StatMode(path) == FileAt(path).st_mode
StatSize(path) == Len(FileAt(path).data)
ReadBytes(path) == FileAt(path).data
\* path.is_dir() / stat.S_ISDIR(st_mode)
S_ISDIR(mode) == mode.ftype = 4
IsDir(path) == S_ISDIR(StatMode(path))

(***************************************************************************)
(* The project's configuration: what the builder reads from self._package, *)
(* self._module, self._poetry and the interpreter.                         *)
(***************************************************************************)
\* self._package.pretty_name / name "p", self._meta.version "1.0"
PackageName == <<112>>
MetaVersion == <<49, 46, 48>>
\* poetry.core.__version__ "1.0.0"
CoreVersion == <<49, 46, 48, 46, 48>>
\* self.get_metadata_content(): "Name: p\n"
MetadataContent == <<78, 97, 109, 101, 58, 32, 112, 10>>
\* self.convert_entry_points():
\*   {"console_scripts": ["a-b = m:g", "a = m:f [x, y]"], "b_group": ["x = y:z"]}
EntryPointGroups ==
    << [group |-> <<99, 111, 110, 115, 111, 108, 101, 95, 115, 99, 114, 105, 112, 116, 115>>,
        eps |-> << <<97, 45, 98, 32, 61, 32, 109, 58, 103>>,
                   <<97, 32, 61, 32, 109, 58, 102, 32, 91, 120, 44, 32, 121, 93>> >>],
       [group |-> <<98, 95, 103, 114, 111, 117, 112>>,
        eps |-> << <<120, 32, 61, 32, 121, 58, 122>> >>] >>

\* an include rule of self._module.includes: is_package is
\* isinstance(include, PackageInclude); elements is include.elements after
\* include.refresh()
Include(is_package, source, base, formats, elements) ==
    [is_package |-> is_package, source |-> source, base |-> base,
     formats |-> formats, elements |-> elements]
\* packages = [{include = "a"}]
RulePackageA ==
    Include(TRUE, FALSE, ProjectPath, {},
            <<DirA.path, FileAB.path, FileACPyc.path, DirAPycache.path,
              FileAPycacheE.path, FileAXPycache.path>>)
\* packages = [{include = "a", from = "src"}]
RulePackageSrcA ==
    Include(TRUE, TRUE, ProjectPath \o <<NameSrc>>, {}, <<DirSrcA.path, FileSrcAB.path>>)
\* include = ["a-b"]
RuleFileADashB == Include(FALSE, FALSE, ProjectPath, {"wheel"}, <<FileADashB.path>>)
\* include = [{path = "c", format = "sdist"}]
RuleSdistC == Include(FALSE, FALSE, ProjectPath, {"sdist"}, <<FileC.path>>)
Rules == {RulePackageA, RulePackageSrcA, RuleFileADashB, RuleSdistC}

\* the lists of at most n distinct rules
RECURSIVE RuleLists(_)
RuleLists(n) ==
    IF n = 0 THEN {<<>>}
    ELSE LET shorter == RuleLists(n - 1)
         IN  shorter \cup
             UNION {{Append(l, r) : r \in Rules \ SeqToSet(l)} :
                    l \in {k \in shorter : Len(k) = n - 1}}

\* a python constraint ">=min,<max" over versions major * 10 + minor
Range(min, max) == [min |-> min, max |-> max]
\* VersionRange.allows_any: the two ranges overlap
AllowsAny(c, other) == ~(other.max <= c.min) /\ ~(c.max <= other.min)
\* parse_constraint(">=2.0.0 <3.0.0")
Python2Line == Range(20, 30)

(***************************************************************************)
(* Names derived from the package (lines 201-222).                         *)
(***************************************************************************)
\* a character of [A-Za-z0-9.]
IsNameChar(c) ==
    \/ 48 <= c /\ c <= 57
    \/ 65 <= c /\ c <= 90
    \/ 97 <= c /\ c <= 122
    \/ c = 46
\* escape_name / escape_version: every run of other characters becomes "_"
RECURSIVE Escape(_)
Escape(s) ==
    IF s = <<>> THEN <<>>
    ELSE IF IsNameChar(s[1]) THEN <<s[1]>> \o Escape(Tail(s))
    ELSE IF Len(s) > 1 /\ ~IsNameChar(s[2]) THEN Escape(Tail(s))
    ELSE <<95>> \o Escape(Tail(s))

dist_info_name(distribution, version) ==
    Escape(distribution) \o Dash \o Escape(version) \o StrDistInfo
dist_info == dist_info_name(PackageName, MetaVersion)

(***************************************************************************)
(* State.                                                                  *)
(***************************************************************************)
VARIABLES
    project,          \* includes, excluded, build_script, python_constraint, local_config
    host,             \* sys_tags of the interpreter; whether tempdir and dist_dir share a file system
    pc,               \* where build() stands
    records,          \* self._records
    wheel,            \* the entries written to the ZipFile (the content of the temporary file)
    tmp,              \* the temporary file of mkstemp: "none", "created", "open", "closed"
    dest,             \* the file at dist_dir / wheel_filename
    dest_before,      \* dest when the running build() was called
    dist_dir_exists,  \* dist_dir.exists()
    wheel_path,       \* self.wheel_filename as computed at line 86
    to_add,           \* _copy_module: the sorted files still to be written
    build_dir,        \* the lib.* directories under build/, in glob order
    lib_queue,        \* _build: the files of lib.glob("**/*") still to be visited
    license_queue,    \* _write_metadata: the license files still to be written
    cwd,              \* os.getcwd()
    current_path,     \* _build: the saved working directory
    nbuilds,          \* build() calls made on this WheelBuilder
    calls,            \* build() calls made in all
    ran_build,        \* whether this build() ran the build command (line 101)
    first_wheel       \* the archive of the first successful build of a new WheelBuilder

vars == <<project, host, pc, records, wheel, tmp, dest, dest_before, dist_dir_exists,
          wheel_path, to_add, build_dir, lib_queue, license_queue, cwd, current_path,
          nbuilds, calls, ran_build, first_wheel>>

(***************************************************************************)
(* The archive writer (lines 240-289).                                     *)
(***************************************************************************)
\* zipfile.ZipInfo(name): the default date_time
ZipInfoDefaultDate == <<1980, 1, 1, 0, 0, 0>>
\* line 281
FixedDate == <<2016, 1, 1, 0, 0, 0>>

\* normalize_file_permissions: 0o755 when an execute bit is set, else 0o644
normalize_file_permissions(st_mode) ==
    LET p == st_mode.perm
    IN  IF (p \div 64) % 2 = 1 \/ (p \div 8) % 2 = 1 \/ p % 2 = 1 THEN 493 ELSE 420

\* hashlib.sha256 over the bytes fed to it: a fixed-size digest, modelled by
\* the polynomial checksum of the bytes (base 31, modulo the prime 32749),
\* computed by halves
RECURSIVE Pow31(_)
Pow31(k) ==
    IF k = 0 THEN 1
    ELSE IF k % 2 = 1 THEN (31 * Pow31(k - 1)) % 32749
    ELSE (Pow31(k \div 2) * Pow31(k \div 2)) % 32749
RECURSIVE Sha256(_)
Sha256(b) ==
    IF b = <<>> THEN 7
    ELSE IF Len(b) = 1 THEN (7 * 31 + b[1]) % 32749
    ELSE LET m == Len(b) \div 2
         IN  (Sha256(SubSeq(b, 1, m)) * Pow31(Len(b) - m)
                  + Sha256(SubSeq(b, m + 1, Len(b)))) % 32749
\* urlsafe_b64encode(digest).decode("ascii").rstrip("="): the digest as text
HashDigest(b) == Dec(Sha256(b))

ZipEntry(filename, date_time, external_attr, data) ==
    [filename |-> filename, date_time |-> date_time, external_attr |-> external_attr,
     data |-> data]
ManifestRecord(path, hash, size) == [path |-> path, hash |-> hash, size |-> size]

\* _add_file: the entry written (lines 247-266) from the st_mode read at line
\* 250 and the bytes read at line 266
\* (below: the entry, were line 251 dropped and the mode of the file kept)
AddFileEntryRawMode(rel_path, st_mode, written) ==
    ZipEntry(rel_path, ZipInfoDefaultDate,
             (st_mode.perm % 65536) * 65536 + (IF S_ISDIR(st_mode) THEN 16 ELSE 0),
             written)
AddFileEntry(rel_path, st_mode, written) ==
    ZipEntry(rel_path, ZipInfoDefaultDate,
             (normalize_file_permissions(st_mode) % 65536) * 65536
                 + (IF S_ISDIR(st_mode) THEN 16 ELSE 0),
             written)
\* _add_file: the record appended (lines 257-271) from the bytes hashed at lines
\* 258-263 and the st_size read at line 268
AddFileRecord(rel_path, hashed, st_size) ==
    ManifestRecord(rel_path, HashDigest(hashed), st_size)

\* _write_to_zip: the entry and the record of a generated file
WriteToZipEntry(rel_path, b) == ZipEntry(rel_path, FixedDate, (420 % 65536) * 65536, b)
WriteToZipRecord(rel_path, b) == ManifestRecord(rel_path, HashDigest(b), Len(b))

\* wheel.namelist()
RECURSIVE namelist(_)
namelist(w) == IF w = <<>> THEN <<>> ELSE <<w[1].filename>> \o namelist(Tail(w))

(***************************************************************************)
(* The tag (lines 213-238).                                                *)
(***************************************************************************)
supports_python2 == AllowsAny(project.python_constraint, Python2Line)

\* next(sys_tags()) raises when the interpreter offers no tag
TagRaises == Truthy(project.build_script) /\ host.sys_tags = <<>>

\* the tag, were line 226 to take every project for a pure Python one
PureTag == JoinDash(<<IF supports_python2 THEN StrPy2Py3 ELSE StrPy3, StrNone, StrAny>>)

tag ==
    IF Truthy(project.build_script)
    THEN JoinDash(host.sys_tags[1])
    ELSE JoinDash(<<IF supports_python2 THEN StrPy2Py3 ELSE StrPy3, StrNone, StrAny>>)

wheel_filename ==
    Escape(PackageName) \o Dash \o Escape(MetaVersion) \o Dash \o tag \o StrWhl

(***************************************************************************)
(* The generated files (lines 193-199 and 291-317).                        *)
(***************************************************************************)
RECURSIVE RecordLines(_)
RecordLines(rs) ==
    IF rs = <<>> THEN <<>>
    ELSE rs[1].path \o Comma \o StrSha256Eq \o rs[1].hash \o Comma \o Dec(rs[1].size)
         \o NL \o RecordLines(Tail(rs))
\* the text _write_record renders from self._records
RecordContent(rs) == RecordLines(rs) \o dist_info \o StrRECORD \o Comma \o Comma \o NL

\* the text _write_wheel_file renders
WheelFileContent ==
    WheelVersionLine
    \o GeneratorPrefix \o CoreVersion \o NL
    \o PurelibPrefix \o (IF project.build_script.is_none THEN StrTrue ELSE StrFalse) \o NL
    \o TagPrefix \o tag \o NL

RECURSIVE GroupNames(_)
GroupNames(gs) == IF gs = <<>> THEN <<>> ELSE <<gs[1].group>> \o GroupNames(Tail(gs))
GroupEps(gs, name) == (CHOOSE g \in SeqToSet(gs) : g.group = name).eps
RECURSIVE EpLines(_)
EpLines(eps) ==
    IF eps = <<>> THEN <<>> ELSE RemoveSpaces(eps[1]) \o NL \o EpLines(Tail(eps))
RECURSIVE GroupSections(_, _)
GroupSections(gs, names) ==
    IF names = <<>> THEN <<>>
    ELSE LBracket \o names[1] \o RBracket \o NL
         \o EpLines(SortedStrs(GroupEps(gs, names[1]))) \o NL
         \o GroupSections(gs, Tail(names))
\* the text _write_entry_points renders
EntryPointsContent == GroupSections(EntryPointGroups, SortedStrs(GroupNames(EntryPointGroups)))

(***************************************************************************)
(* The file collector (lines 133-173) and the globs of _build and          *)
(* _write_metadata.                                                        *)
(***************************************************************************)
\* self.is_excluded(path): the path is one of the project's excluded paths
is_excluded(path) == path \in project.excluded

ToAdd(full_path, rel_path) == [full_path |-> full_path, rel_path |-> rel_path]

\* lines 143-168 for one include: the files appended to to_add
RECURSIVE CollectElements(_, _, _)
CollectElements(include, elements, acc) ==
    IF elements = <<>> THEN acc
    ELSE LET file == elements[1]
             rel_file == IF include.is_package /\ include.source
                         THEN RelativeTo(file, include.base)
                         ELSE RelativeTo(file, ProjectPath)
             skip == \/ Contains(AsPosix(file), StrPycache)
                     \/ IsDir(file)
                     \/ (is_excluded(AsPosix(rel_file)) /\ include.is_package)
                     \/ Suffix(file) = StrPyc
                     \/ ToAdd(file, rel_file) \in SeqToSet(acc)
         IN  CollectElements(include, Tail(elements),
                             IF skip THEN acc ELSE Append(acc, ToAdd(file, rel_file)))

\* lines 137-168: to_add after the loop over self._module.includes
RECURSIVE CollectIncludes(_, _)
CollectIncludes(includes, acc) ==
    IF includes = <<>> THEN acc
    ELSE LET include == includes[1]
         IN  IF include.formats # {} /\ "wheel" \notin include.formats
             THEN CollectIncludes(Tail(includes), acc)
             ELSE CollectIncludes(Tail(includes),
                                  CollectElements(include, include.elements, acc))

\* to_add as the include rules yielded it, were line 172 to iterate it unsorted
CollectedOrder(s) == s

\* sorted(to_add, key=lambda x: x[1]): stable, the keys compared as paths

RECURSIVE InsertToAdd(_, _)
InsertToAdd(x, s) ==
    IF s = <<>> THEN <<x>>
    ELSE IF PartsLess(x.rel_path, s[1].rel_path) THEN <<x>> \o s
    ELSE <<s[1]>> \o InsertToAdd(x, Tail(s))
RECURSIVE SortedToAdd(_)
SortedToAdd(s) == IF s = <<>> THEN <<>> ELSE InsertToAdd(Last(s), SortedToAdd(Front(s)))

\* sorted(paths) of a set of paths
RECURSIVE SortedPaths(_)
SortedPaths(S) ==
    IF S = {} THEN <<>>
    ELSE LET least == CHOOSE p \in S : \A q \in S : ~PartsLess(q, p)
         IN  <<least>> \o SortedPaths(S \ {least})

\* self._path.glob(base + "*")
GlobRoot(base) ==
    {f.path : f \in {g \in Disk : /\ Len(g.path) = Len(ProjectPath) + 1
                                  /\ IsUnder(g.path, ProjectPath)
                                  /\ StartsWith(Name(g.path), base)}}
\* lines 183-185: the license files in the order they are written
LicenseFiles == SortedPaths(GlobRoot(StrCOPYING)) \o SortedPaths(GlobRoot(StrLICENSE))

\* lib.glob("**/*"): everything below the directory
GlobLibFiles(lib) ==
    {f.path : f \in {g \in Disk : /\ IsUnder(g.path, LibPath(lib))
                                  /\ Len(g.path) > Len(LibPath(lib))}}

\* what the build command may leave in build/ (build_dir.glob("lib.*"), in the
\* order the file system lists it)
BuildOutputs == {<<>>} \cup Orders({NameLibX, NameLibY})

(***************************************************************************)
(* Initial states: a project, a host and a destination directory.          *)
(***************************************************************************)
Project(includes, excluded, build_script, python_constraint, local_config) ==
    [includes |-> includes, excluded |-> excluded, build_script |-> build_script,
     python_constraint |-> python_constraint, local_config |-> local_config]
Host(sys_tags, same_fs, sep) ==
    [sys_tags |-> sys_tags, same_fs |-> same_fs, sep |-> sep, writer |-> FALSE]

\* "build.py"
BuildPy == <<98, 117, 105, 108, 100, 46, 112, 121>>
BuildScripts == {PyNone, PyStr(<<>>), PyStr(BuildPy)}
\* ">=2.7,<4.0", ">=2.7,<3.0", ">=3.0,<4.0", ">=3.6,<4.0", ">=1.0,<2.0"
Constraints == {Range(27, 40), Range(27, 30), Range(30, 40), Range(36, 40), Range(10, 20)}
\* cp38-cp38-linux first, then py3-none-any
HostTags ==
    << <<<<99, 112, 51, 56>>, <<99, 112, 51, 56>>, <<108, 105, 110, 117, 120>>>>,
       <<StrPy3, StrNone, StrAny>> >>
TagLists == {<<>>, HostTags}
\* the paths the exclusion rules match, as is_excluded is handed them: none,
\* or "a/b", "a-b" and "proj/build/lib.x/d"
ExcludedSets ==
    {{}, {AsPosix(<<NameA, NameB>>), NameADashB, AsPosix(LibPath(NameLibX) \o <<NameD>>)}}

NoFile == [kind |-> "none", entries |-> <<>>]
Whole(entries) == [kind |-> "whole", entries |-> entries]
Partial(entries) == [kind |-> "partial", entries |-> entries]
\* a complete archive an earlier release left at the destination: one entry "old"
\* what the first build() of a new WheelBuilder produced, and the lib.*
\* directories its build command had left
NoBuild == [built |-> FALSE, entries |-> <<>>, outputs |-> {}]
FirstBuild(entries, outputs) == [built |-> TRUE, entries |-> entries, outputs |-> outputs]

PreviousArchive ==
    Whole(<<ZipEntry(<<111, 108, 100>>, FixedDate, (420 % 65536) * 65536, <<>>)>>)

\* the directory build() is called from: "home"
StartDir == <<<<104, 111, 109, 101>>>>

DefaultProject == Project(<<RulePackageA>>, {}, PyNone, Range(36, 40), {})
DefaultHost == Host(HostTags, TRUE, Slash)
\* a host on which another process rewrites proj/a-b while build() runs
HostWithWriter == [Host(HostTags, TRUE, Slash) EXCEPT !.writer = TRUE]

\* the projects: every list of include rules, with and without exclusions,
\* and with a build script beside at most one include rule
InitProjects ==
    /\ project \in {p \in {Project(i, e, b, Range(36, 40), {"scripts"}) :
                                 i \in RuleLists(MaxIncludes), e \in ExcludedSets,
                                 b \in {PyNone, PyStr(BuildPy)}} :
                        Truthy(p.build_script) => Len(p.includes) <= 1}
    /\ host = DefaultHost
    /\ dist_dir_exists = TRUE
    /\ dest = NoFile

\* the destinations: the directory missing or present, empty or holding an
\* earlier archive, on the file system of the temporary directory or not;
\* the project with and without entry points
InitDestinations ==
    /\ project \in {Project(<<RulePackageA>>, {}, PyNone, Range(36, 40), c) :
                        c \in {{}, {"scripts"}, {"plugins"}}}
    /\ host \in {Host(HostTags, f, Slash) : f \in BOOLEAN}
    /\ dist_dir_exists \in BOOLEAN
    /\ dest \in {NoFile, PreviousArchive}
    /\ (~dist_dir_exists => dest = NoFile)

\* the tag inputs: every build_script, python constraint and tag list
InitTags ==
    /\ project \in {Project(<<RulePackageA>>, {}, b, r, {}) :
                        b \in BuildScripts, r \in Constraints}
    /\ host \in {Host(t, TRUE, Slash) : t \in TagLists}
    /\ dist_dir_exists = TRUE
    /\ dest = NoFile

\* the hosts whose os.sep is not "/": a project with a build script, with and
\* without a package
InitSeparators ==
    /\ project \in {Project(i, {}, PyStr(BuildPy), Range(36, 40), {}) :
                        i \in {<<>>, <<RulePackageA>>}}
    /\ host = Host(HostTags, TRUE, Backslash)
    /\ dist_dir_exists = TRUE
    /\ dest = NoFile

\* a source file rewritten by another process during the build
InitConcurrent ==
    /\ project = Project(<<RuleFileADashB>>, {}, PyNone, Range(36, 40), {})
    /\ host = HostWithWriter
    /\ dist_dir_exists = TRUE
    /\ dest = NoFile

Init ==
    /\ (InitProjects \/ InitDestinations \/ InitTags \/ InitSeparators \/ InitConcurrent)
    /\ pc = "idle"
    /\ records = <<>>
    /\ wheel = <<>>
    /\ tmp = "none"
    /\ dest_before = dest
    /\ wheel_path = <<>>
    /\ to_add = <<>>
    /\ build_dir = <<>>
    /\ lib_queue = <<>>
    /\ license_queue = <<>>
    /\ cwd = StartDir
    /\ current_path = StartDir
    /\ nbuilds = 0
    /\ calls = 0
    /\ ran_build = FALSE
    /\ first_wheel = NoBuild

(***************************************************************************)
(* build() (lines 65-91), one action per step.                             *)
(***************************************************************************)
\* an exception leaves build(): the with statement closes the ZipFile, the
\* finally of _build restores the working directory; nothing else is undone
\* the exception, were lines 101-103 written without try and finally
UnwindWithoutFinally ==
    /\ pc' = "failed"
    /\ tmp' = IF tmp = "open" THEN "closed" ELSE tmp
    /\ cwd' = cwd

Unwind ==
    /\ pc' = "failed"
    /\ tmp' = IF tmp = "open" THEN "closed" ELSE tmp
    /\ cwd' = IF pc = "run_build" THEN current_path ELSE cwd

\* build() is entered: its locals are fresh
EnterBuild ==
    /\ calls < MaxBuilds
    /\ calls' = calls + 1
    /\ pc' = "mkdir"
    /\ wheel' = <<>>
    /\ tmp' = "none"
    /\ dest_before' = dest
    /\ to_add' = <<>>
    /\ lib_queue' = <<>>
    /\ license_queue' = <<>>
    /\ ran_build' = FALSE
    /\ wheel_path' = <<>>
    /\ build_dir' = <<>>
    /\ UNCHANGED <<project, host, dest, dist_dir_exists, cwd, current_path,
                   first_wheel>>

\* make_in: a new WheelBuilder (self._records = []) and its build().  A build()
\* that raised ends the run: the exception is the caller's to handle.
MakeIn ==
    /\ pc \in {"idle", "done"}
    /\ records' = <<>>
    /\ nbuilds' = 1
    /\ EnterBuild

\* build() called again on the same WheelBuilder
BuildAgain ==
    /\ pc = "done"
    /\ nbuilds' = nbuilds + 1
    /\ UNCHANGED records
    /\ EnterBuild

\* lines 68-70
MkDir ==
    /\ pc = "mkdir"
    /\ dist_dir_exists' = TRUE
    /\ pc' = "mkstemp"
    /\ UNCHANGED <<project, host, records, wheel, tmp, dest, dest_before, wheel_path,
                   to_add, build_dir, lib_queue, license_queue, cwd, current_path,
                   nbuilds, calls, first_wheel, ran_build>>

\* line 72: tempfile.mkstemp(suffix=".whl") creates the file in the temporary
\* directory of the host
MkStemp ==
    /\ pc = "mkstemp"
    /\ tmp' = "created"
    /\ pc' = "chmod"
    /\ UNCHANGED <<project, host, records, wheel, dest, dest_before, dist_dir_exists,
                   wheel_path, to_add, build_dir, lib_queue, license_queue, cwd,
                   current_path, nbuilds, calls, first_wheel, ran_build>>

\* lines 74-80: the mode is normalized and the ZipFile opened on the file
OpenZip ==
    /\ pc = "chmod"
    /\ tmp' = "open"
    /\ pc' = "copy_module"
    /\ UNCHANGED <<project, host, records, wheel, dest, dest_before, dist_dir_exists,
                   wheel_path, to_add, build_dir, lib_queue, license_queue, cwd,
                   current_path, nbuilds, calls, first_wheel, ran_build>>

\* lines 135-168 and the sort of line 172
CopyModule ==
    /\ pc = "copy_module"
    /\ to_add' = SortedToAdd(CollectIncludes(project.includes, <<>>))
    /\ pc' = IF to_add' = <<>> THEN "build" ELSE "add_files"
    /\ UNCHANGED <<project, host, records, wheel, tmp, dest, dest_before,
                   dist_dir_exists, wheel_path, build_dir, lib_queue, license_queue,
                   cwd, current_path, nbuilds, calls, first_wheel, ran_build>>

\* lines 241-245: the archive path has "/" for os.sep
SlashSeparated(rel_path) ==
    IF host.sep # Slash THEN Replace(rel_path, host.sep, Slash) ELSE rel_path

\* what a read of the file may return: the bytes on disk, or, while another
\* process rewrites proj/a-b, the bytes it has written by then
RewrittenBytes == <<122, 122>>
Contents(full_path) ==
    IF host.writer /\ full_path = FileADashB.path
    THEN {ReadBytes(full_path), RewrittenBytes}
    ELSE {ReadBytes(full_path)}

\* _add_file runs to its end: the file is read and hashed (lines 258-263), read
\* again and written (lines 265-266), its size looked up (line 268), and the
\* record appended
AddFileDone(full_path, rel_path) ==
    \E hashed \in Contents(full_path), written \in Contents(full_path),
       sized \in Contents(full_path) :
        /\ wheel' = Append(wheel, AddFileEntry(SlashSeparated(rel_path),
                                               StatMode(full_path), written))
        /\ records' = Append(records, AddFileRecord(SlashSeparated(rel_path), hashed,
                                                    Len(sized)))
\* _add_file raises at line 268, after the entry was written
AddFileStatRaises(full_path, rel_path) ==
    /\ \E written \in Contents(full_path) :
           wheel' = Append(wheel, AddFileEntry(SlashSeparated(rel_path),
                                               StatMode(full_path), written))
    /\ UNCHANGED records
    /\ Unwind

\* lines 172-173: the next file of to_add
AddProjectFile ==
    /\ pc = "add_files"
    /\ LET x == Head(to_add)
       IN  \/ /\ AddFileDone(x.full_path, StrPath(x.rel_path, host.sep))
              /\ to_add' = Tail(to_add)
              /\ pc' = IF to_add' = <<>> THEN "build" ELSE "add_files"
              /\ UNCHANGED <<tmp, cwd>>
           \/ /\ AddFileStatRaises(x.full_path, StrPath(x.rel_path, host.sep))
              /\ UNCHANGED to_add
    /\ UNCHANGED <<project, host, dest, dest_before, dist_dir_exists, wheel_path,
                   build_dir, lib_queue, license_queue, current_path, nbuilds, calls,
                   first_wheel, ran_build>>

\* line 94: no build script, _build does nothing
SkipBuild ==
    /\ pc = "build"
    /\ ~Truthy(project.build_script)
    /\ pc' = "entry_points"
    /\ UNCHANGED <<project, host, records, wheel, tmp, dest, dest_before,
                   dist_dir_exists, wheel_path, to_add, build_dir, lib_queue,
                   license_queue, cwd, current_path, nbuilds, calls, first_wheel, ran_build>>

\* lines 95-100: setup.py is generated and the process enters the project
Chdir ==
    /\ pc = "build"
    /\ Truthy(project.build_script)
    /\ current_path' = cwd
    /\ cwd' = ProjectPath
    /\ pc' = "run_build"
    /\ UNCHANGED <<project, host, records, wheel, tmp, dest, dest_before,
                   dist_dir_exists, wheel_path, to_add, build_dir, lib_queue,
                   license_queue, nbuilds, calls, first_wheel, ran_build>>

\* lines 101-103: the build command exits 0 and the directory is restored
RunBuildCommand ==
    /\ pc = "run_build"
    /\ build_dir' \in BuildOutputs
    /\ ran_build' = TRUE
    /\ cwd' = current_path
    /\ pc' = "glob_lib"
    /\ UNCHANGED <<project, host, records, wheel, tmp, dest, dest_before,
                   dist_dir_exists, wheel_path, to_add, lib_queue, license_queue,
                   current_path, nbuilds, calls, first_wheel>>

\* lines 105-115: the first lib.* directory is listed, in the order of the
\* file system
GlobLib ==
    /\ pc = "glob_lib"
    /\ IF build_dir = <<>>
       THEN lib_queue' = <<>>
       ELSE lib_queue' \in Orders(GlobLibFiles(build_dir[1]))
    /\ pc' = IF lib_queue' = <<>> THEN "entry_points" ELSE "add_lib"
    /\ UNCHANGED <<project, host, records, wheel, tmp, dest, dest_before,
                   dist_dir_exists, wheel_path, to_add, build_dir, license_queue, cwd,
                   current_path, nbuilds, calls, first_wheel, ran_build>>

\* lines 115-126: the next file of the lib directory
AddLibFile ==
    /\ pc = "add_lib"
    /\ LET pkg == Head(lib_queue)
           rel_path == StrPath(RelativeTo(pkg, LibPath(build_dir[1])), host.sep)
           skip == \/ IsDir(pkg)
                   \/ is_excluded(AsPosix(pkg))
                   \/ rel_path \in SeqToSet(namelist(wheel))
           rest == IF Len(lib_queue) = 1 THEN "entry_points" ELSE "add_lib"
       IN  \/ /\ skip
              /\ lib_queue' = Tail(lib_queue)
              /\ pc' = rest
              /\ UNCHANGED <<wheel, records, tmp, cwd>>
           \/ /\ ~skip
              /\ AddFileDone(pkg, rel_path)
              /\ lib_queue' = Tail(lib_queue)
              /\ pc' = rest
              /\ UNCHANGED <<tmp, cwd>>
           \/ /\ ~skip
              /\ AddFileStatRaises(pkg, rel_path)
              /\ UNCHANGED lib_queue
    /\ UNCHANGED <<project, host, dest, dest_before, dist_dir_exists, wheel_path,
                   to_add, build_dir, license_queue, current_path, nbuilds, calls,
                   first_wheel, ran_build>>

\* _write_to_zip: the generated file is written and recorded (lines 281-289)
WriteToZip(rel_path, b) ==
    /\ wheel' = Append(wheel, WriteToZipEntry(rel_path, b))
    /\ records' = Append(records, WriteToZipRecord(rel_path, b))

\* lines 176-181
WriteEntryPoints ==
    /\ pc = "entry_points"
    /\ IF "scripts" \in project.local_config \/ "plugins" \in project.local_config
       THEN WriteToZip(dist_info \o StrEntryPoints, EntryPointsContent)
       ELSE UNCHANGED <<wheel, records>>
    /\ license_queue' = LicenseFiles
    /\ pc' = IF license_queue' = <<>> THEN "wheel_file" ELSE "licenses"
    /\ UNCHANGED <<project, host, tmp, dest, dest_before, dist_dir_exists, wheel_path,
                   to_add, build_dir, lib_queue, cwd, current_path, nbuilds, calls,
                   first_wheel, ran_build>>

\* lines 183-185: the next license file
AddLicense ==
    /\ pc = "licenses"
    /\ LET path == Head(license_queue)
           rel_path == dist_info \o Slash \o Name(path)
       IN  \/ /\ AddFileDone(path, rel_path)
              /\ license_queue' = Tail(license_queue)
              /\ pc' = IF license_queue' = <<>> THEN "wheel_file" ELSE "licenses"
              /\ UNCHANGED <<tmp, cwd>>
           \/ /\ AddFileStatRaises(path, rel_path)
              /\ UNCHANGED license_queue
    /\ UNCHANGED <<project, host, dest, dest_before, dist_dir_exists, wheel_path,
                   to_add, build_dir, lib_queue, current_path, nbuilds, calls,
                   first_wheel, ran_build>>

\* lines 187-188: WHEEL; the tag is resolved here for the first time, and
\* next(sys_tags()) may raise
WriteWheelFile ==
    /\ pc = "wheel_file"
    /\ IF TagRaises
       THEN Unwind /\ UNCHANGED <<wheel, records>>
       ELSE /\ WriteToZip(dist_info \o StrWHEEL, WheelFileContent)
            /\ pc' = "metadata_file"
            /\ UNCHANGED <<tmp, cwd>>
    /\ UNCHANGED <<project, host, dest, dest_before, dist_dir_exists, wheel_path,
                   to_add, build_dir, lib_queue, license_queue, current_path, nbuilds,
                   calls, first_wheel, ran_build>>

\* lines 190-191: METADATA
WriteMetadataFile ==
    /\ pc = "metadata_file"
    /\ WriteToZip(dist_info \o StrMETADATA, MetadataContent)
    /\ pc' = "record"
    /\ UNCHANGED <<project, host, tmp, dest, dest_before, dist_dir_exists, wheel_path,
                   to_add, build_dir, lib_queue, license_queue, cwd, current_path,
                   nbuilds, calls, first_wheel, ran_build>>

\* _write_record (lines 193-199): RECORD is rendered from self._records inside
\* _write_to_zip, which then writes it and appends its record
WriteRecord ==
    /\ pc = "record"
    /\ WriteToZip(dist_info \o StrRECORD, RecordContent(records))
    /\ pc' = "close"
    /\ UNCHANGED <<project, host, tmp, dest, dest_before, dist_dir_exists, wheel_path,
                   to_add, build_dir, lib_queue, license_queue, cwd, current_path,
                   nbuilds, calls, first_wheel, ran_build>>

\* the with statement of lines 78-84 ends: the archive is finalized
CloseZip ==
    /\ pc = "close"
    /\ tmp' = "closed"
    /\ pc' = "unlink"
    /\ UNCHANGED <<project, host, records, wheel, dest, dest_before, dist_dir_exists,
                   wheel_path, to_add, build_dir, lib_queue, license_queue, cwd,
                   current_path, nbuilds, calls, first_wheel, ran_build>>

\* lines 86-88: the final path is computed and a file found there is removed
Unlink ==
    /\ pc = "unlink"
    /\ wheel_path' = wheel_filename
    /\ dest' = NoFile
    /\ pc' = "move"
    /\ UNCHANGED <<project, host, records, wheel, tmp, dest_before, dist_dir_exists,
                   to_add, build_dir, lib_queue, license_queue, cwd, current_path,
                   nbuilds, calls, first_wheel, ran_build>>

\* line 89, shutil.move: os.rename when both paths are on one file system,
\* else the file is copied
Move ==
    /\ pc = "move"
    /\ IF host.same_fs
       THEN dest' = Whole(wheel) /\ tmp' = "none" /\ pc' = "built"
       ELSE dest' = Partial(wheel) /\ tmp' = tmp /\ pc' = "copying"
    /\ UNCHANGED <<project, host, records, wheel, dest_before, dist_dir_exists,
                   wheel_path, to_add, build_dir, lib_queue, license_queue, cwd,
                   current_path, nbuilds, calls, first_wheel, ran_build>>

\* shutil.move across file systems: the copy completes
CopyFinish ==
    /\ pc = "copying"
    /\ dest' = Whole(wheel)
    /\ pc' = "remove_tmp"
    /\ UNCHANGED <<project, host, records, wheel, tmp, dest_before, dist_dir_exists,
                   wheel_path, to_add, build_dir, lib_queue, license_queue, cwd,
                   current_path, nbuilds, calls, first_wheel, ran_build>>

\* shutil.move across file systems: the source is removed
RemoveTmp ==
    /\ pc = "remove_tmp"
    /\ tmp' = "none"
    /\ pc' = "built"
    /\ UNCHANGED <<project, host, records, wheel, dest, dest_before, dist_dir_exists,
                   wheel_path, to_add, build_dir, lib_queue, license_queue, cwd,
                   current_path, nbuilds, calls, first_wheel, ran_build>>

\* line 91: build() returns
Return ==
    /\ pc = "built"
    /\ pc' = "done"
    /\ first_wheel' = IF nbuilds = 1 /\ first_wheel = NoBuild
                    THEN FirstBuild(dest.entries, SeqToSet(build_dir))
                    ELSE first_wheel
    /\ UNCHANGED <<project, host, records, wheel, tmp, dest, dest_before,
                   dist_dir_exists, wheel_path, to_add, build_dir, lib_queue,
                   license_queue, cwd, current_path, nbuilds, calls, ran_build>>

\* the steps whose system call may fail
CanRaise ==
    \/ pc = "mkdir" /\ ~dist_dir_exists
    \/ pc \in {"mkstemp", "chmod", "copy_module", "add_files", "run_build", "glob_lib",
               "add_lib", "licenses", "metadata_file", "record", "close", "move",
               "copying", "remove_tmp"}
    \/ pc = "build" /\ Truthy(project.build_script)
    \/ pc = "entry_points" /\ project.local_config # {}
    \/ pc = "wheel_file" /\ ~TagRaises
    \/ pc = "unlink" /\ dest.kind # "none"

\* the call of the current step raises before it changed anything
Raise ==
    /\ CanRaise
    /\ Unwind
    /\ UNCHANGED <<project, host, records, wheel, dest, dest_before, dist_dir_exists,
                   wheel_path, to_add, build_dir, lib_queue, license_queue,
                   current_path, nbuilds, calls, first_wheel, ran_build>>

Next ==
    \/ MakeIn
    \/ BuildAgain
    \/ MkDir
    \/ MkStemp
    \/ OpenZip
    \/ CopyModule
    \/ AddProjectFile
    \/ SkipBuild
    \/ Chdir
    \/ RunBuildCommand
    \/ GlobLib
    \/ AddLibFile
    \/ WriteEntryPoints
    \/ AddLicense
    \/ WriteWheelFile
    \/ WriteMetadataFile
    \/ WriteRecord
    \/ CloseZip
    \/ Unlink
    \/ Move
    \/ CopyFinish
    \/ RemoveTmp
    \/ Return
    \/ Raise

Spec == Init /\ [][Next]_vars

(***************************************************************************)
(* Reading an archive back: what an installer sees.                        *)
(***************************************************************************)
RecordPath == dist_info \o StrRECORD
WheelFilePath == dist_info \o StrWHEEL

\* the entries of an archive with the given name, in the order written
RECURSIVE EntriesNamed(_, _)
EntriesNamed(w, name) ==
    IF w = <<>> THEN <<>>
    ELSE (IF w[1].filename = name THEN <<w[1]>> ELSE <<>>) \o EntriesNamed(Tail(w), name)

\* the lines of RECORD, each split at its commas into path, hash and size
RECURSIVE SplitLines(_)
SplitLines(lines) ==
    IF lines = <<>> THEN <<>> ELSE <<Split(lines[1], 44)>> \o SplitLines(Tail(lines))
RecordRows(w) == SplitLines(Lines(Last(EntriesNamed(w, RecordPath)).data))
RECURSIVE RowPaths(_)
RowPaths(rows) == IF rows = <<>> THEN <<>> ELSE <<rows[1][1]>> \o RowPaths(Tail(rows))

\* the value of the line "<key>value" of a text
LineValue(text, key) ==
    LET ls == Lines(text)
        i == CHOOSE k \in 1..Len(ls) : StartsWith(ls[k], key)
    IN  SubSeq(ls[i], Len(key) + 1, Len(ls[i]))

(***************************************************************************)
(* C1.  Whenever build() fails, the destination path holds what it held     *)
(* when build() was called: the earlier complete archive, or nothing.       *)
(***************************************************************************)
C1_FailureLeavesDestinationUntouched ==
    pc = "failed" => dest = dest_before

(***************************************************************************)
(* C2.  Whenever build() fails, no temporary archive file is left behind:   *)
(* a temporary file that was allocated has been removed when the failure    *)
(* reaches the caller.                                                      *)
(***************************************************************************)
C2_FailureRemovesTemporaryFile ==
    pc = "failed" => tmp = "none"

(***************************************************************************)
(* C3.  While build() replaces an earlier archive, every state shows at the *)
(* destination either the complete earlier archive or the complete new      *)
(* one, and the temporary file lives on the file system of the destination. *)
(***************************************************************************)
C3_ReplacementIsAtomic ==
    (pc # "failed" /\ dest_before.kind = "whole") =>
        /\ dest = dest_before \/ dest = Whole(wheel)
        /\ tmp # "none" => host.same_fs

(***************************************************************************)
(* C4.  After a successful build() every entry of the archive other than    *)
(* RECORD has exactly one RECORD line with its path, and that line carries  *)
(* the sha256 of the entry's bytes and their length.                        *)
(***************************************************************************)
C4_ManifestCompleteness ==
    pc = "done" =>
        LET rows == RecordRows(dest.entries)
        IN  \A i \in 1..Len(dest.entries) :
                LET e == dest.entries[i]
                    mine == {k \in 1..Len(rows) : rows[k][1] = e.filename}
                IN  e.filename # RecordPath =>
                        /\ Cardinality(mine) = 1
                        /\ \A k \in mine :
                               /\ rows[k][2] = StrSha256Eq \o HashDigest(e.data)
                               /\ rows[k][3] = Dec(Len(e.data))

(***************************************************************************)
(* C5.  As stated: the lines of RECORD are the archive's entries in the     *)
(* order they were written, and the project files are written in ascending  *)
(* order of their archive path compared as a string.                        *)
(***************************************************************************)
ProjectFileCount == Len(CollectIncludes(project.includes, <<>>))
ProjectFilesWritten ==
    IF Len(wheel) < ProjectFileCount THEN Len(wheel) ELSE ProjectFileCount
RECURSIVE RecordPaths(_)
RecordPaths(rs) == IF rs = <<>> THEN <<>> ELSE <<rs[1].path>> \o RecordPaths(Tail(rs))

C5_RecordOrderAndStringOrder ==
    pc = "done" =>
        /\ RowPaths(RecordRows(wheel)) = namelist(wheel)
        /\ \A i, j \in 1..ProjectFileCount :
               i < j => ~StrLess(wheel[j].filename, wheel[i].filename)

(***************************************************************************)
(* C5, amended.  Every completed write appends one record for the path it   *)
(* wrote, so the records appended by this build() are the archive's entries *)
(* in write order; RECORD renders the record list in list order and closes  *)
(* with its own line; and the project files are written in ascending order  *)
(* of their archive path compared component by component, as paths, so that *)
(* a/b precedes a-b.                                                        *)
(***************************************************************************)
C5_RecordsFollowWrites ==
    /\ pc # "failed" =>
           /\ Len(records) >= Len(wheel)
           /\ RecordPaths(SubSeq(records, Len(records) - Len(wheel) + 1, Len(records)))
                  = namelist(wheel)
    /\ (wheel # <<>> /\ Last(wheel).filename = RecordPath) =>
           RowPaths(RecordRows(wheel)) = RecordPaths(Front(records)) \o <<RecordPath>>
    /\ \A i, j \in 1..ProjectFilesWritten :
           i < j => ~PartsLess(Split(wheel[j].filename, 47), Split(wheel[i].filename, 47))

\* a build that wrote a/b before a-b, the pair on which the two orders differ
C5_PathOrderWitness ==
    /\ pc = "done"
    /\ \E i, j \in 1..ProjectFileCount :
           /\ i < j
           /\ wheel[i].filename = AsPosix(<<NameA, NameB>>)
           /\ wheel[j].filename = NameADashB

(***************************************************************************)
(* C6.  After a successful build() RECORD is the last entry of the archive, *)
(* its content ends with the line "<dist-info>/RECORD,,", and the record    *)
(* list holds no record, with hash and size, of RECORD itself.              *)
(***************************************************************************)
C6_RecordIsLastAndUnrecorded ==
    pc = "done" =>
        /\ Last(wheel).filename = RecordPath
        /\ Last(Lines(Last(wheel).data)) = RecordPath \o Comma \o Comma
        /\ \A k \in 1..Len(records) : records[k].path # RecordPath

(***************************************************************************)
(* C7.  The archive never holds two entries with the same archive path.     *)
(***************************************************************************)
C7_OneEntryPerPath ==
    \A i, j \in 1..Len(wheel) : i # j => wheel[i].filename # wheel[j].filename

(***************************************************************************)
(* C8.  Two builds of the same project, over the same files on disk and the *)
(* same build output, produce the same sequence of archive entries, RECORD  *)
(* included, whatever order the file system lists the files in.             *)
(***************************************************************************)
C8_Reproducible ==
    (/\ pc = "done"
     /\ nbuilds = 1
     /\ first_wheel.built
     /\ first_wheel.outputs = SeqToSet(build_dir)) =>
        wheel = first_wheel.entries

(***************************************************************************)
(* C9.  The tag is decided by the build script and the declared Python      *)
(* range alone: without a native build it is py2.py3-none-any when some     *)
(* version of [2.0, 3.0) lies in the declared range and py3-none-any        *)
(* otherwise; with a native build it is the first tag of the host, joined   *)
(* by dashes.  The tag of the archive's file name is the Tag of WHEEL.      *)
(***************************************************************************)
C9_Py2Py3NoneAny ==
    <<112, 121, 50, 46, 112, 121, 51, 45, 110, 111, 110, 101, 45, 97, 110, 121>>
C9_Py3NoneAny == <<112, 121, 51, 45, 110, 111, 110, 101, 45, 97, 110, 121>>
C9_Python2Versions == {v \in 0..99 : v \div 10 = 2}
C9_ExpectedTag ==
    IF Truthy(project.build_script)
    THEN host.sys_tags[1][1] \o Dash \o host.sys_tags[1][2] \o Dash \o host.sys_tags[1][3]
    ELSE IF \E v \in C9_Python2Versions :
                /\ project.python_constraint.min <= v
                /\ v < project.python_constraint.max
         THEN C9_Py2Py3NoneAny
         ELSE C9_Py3NoneAny

C9_TagCorrect ==
    /\ ~TagRaises => tag = C9_ExpectedTag
    /\ wheel_path # <<>> =>
           wheel_path = PackageName \o Dash \o MetaVersion \o Dash
                          \o LineValue(Last(EntriesNamed(wheel, WheelFilePath)).data, TagPrefix)
                          \o StrWhl

\* a finished build of a project without build script whose range reaches 2.7
C9_Py2Witness ==
    /\ pc = "done"
    /\ ~Truthy(project.build_script)
    /\ project.python_constraint.min < 30
    /\ LineValue(Last(EntriesNamed(wheel, WheelFilePath)).data, TagPrefix) = C9_Py2Py3NoneAny

(***************************************************************************)
(* C10.  Whatever build_script is, WHEEL says Root-Is-Purelib: true exactly *)
(* when _build ran no build command, and exactly when the tag has the form  *)
(* ...-none-any.                                                            *)
(***************************************************************************)
C10_NoneAny == <<45, 110, 111, 110, 101, 45, 97, 110, 121>>
EndsWith(s, suf) ==
    Len(suf) <= Len(s) /\ SubSeq(s, Len(s) - Len(suf) + 1, Len(s)) = suf

C10_PurelibAgrees ==
    EntriesNamed(wheel, WheelFilePath) # <<>> =>
        LET text == Last(EntriesNamed(wheel, WheelFilePath)).data
            purelib == LineValue(text, PurelibPrefix) = StrTrue
        IN  /\ purelib <=> ~ran_build
            /\ purelib <=> EndsWith(LineValue(text, TagPrefix), C10_NoneAny)

(***************************************************************************)
(* C11.  Every entry of the archive carries the mode 0o755 or the mode      *)
(* 0o644 and no other bit, whatever the mode of the file it was read from;  *)
(* the files the builder generates carry 0o644.                             *)
(***************************************************************************)
GeneratedPaths ==
    {dist_info \o StrEntryPoints, dist_info \o StrWHEEL, dist_info \o StrMETADATA,
     dist_info \o StrRECORD}

C11_CanonicalModes ==
    \A i \in 1..Len(wheel) :
        /\ wheel[i].external_attr \in {493 * 65536, 420 * 65536}
        /\ wheel[i].filename \in GeneratedPaths => wheel[i].external_attr = 420 * 65536

\* an archive holding the setuid file, the file executable by others only and
\* the generated files
C11_UnusualModesWitness ==
    /\ pc = "done"
    /\ \E i, j \in 1..Len(wheel) :
           /\ wheel[i].data = FileSrcAB.data /\ wheel[i].external_attr = 493 * 65536
           /\ wheel[j].data = FileADashB.data /\ wheel[j].external_attr = 493 * 65536

(***************************************************************************)
(* Reading entry_points.txt back: its sections, each a group name and the   *)
(* lines below it up to the blank line.                                     *)
(***************************************************************************)
EntryPointsPath == dist_info \o StrEntryPoints
RECURSIVE ParseSections(_)
ParseSections(ls) ==
    IF ls = <<>> THEN <<>>
    ELSE LET blank == CHOOSE k \in 1..Len(ls) :
                          ls[k] = <<>> /\ \A j \in 1..(k - 1) : ls[j] # <<>>
         IN  <<[group |-> SubSeq(ls[1], 2, Len(ls[1]) - 1),
                eps |-> SubSeq(ls, 2, blank - 1)]>>
             \o ParseSections(SubSeq(ls, blank + 1, Len(ls)))
EntryPointsDeclared ==
    "scripts" \in project.local_config \/ "plugins" \in project.local_config
Ascending(strs) == \A a, b \in 1..Len(strs) : a < b => ~StrLess(strs[b], strs[a])

\* the entry with the spaces next to its "=" removed, and no other
RECURSIVE StripRight(_)
StripRight(s) == IF s # <<>> /\ Last(s) = 32 THEN StripRight(Front(s)) ELSE s
RECURSIVE StripLeft(_)
StripLeft(s) == IF s # <<>> /\ s[1] = 32 THEN StripLeft(Tail(s)) ELSE s
StripAroundEq(s) ==
    LET i == CHOOSE k \in 1..Len(s) : s[k] = 61 /\ \A j \in 1..(k - 1) : s[j] # 61
    IN  StripRight(SubSeq(s, 1, i - 1)) \o <<61>> \o StripLeft(SubSeq(s, i + 1, Len(s)))

(***************************************************************************)
(* C12.  As stated: entry_points.txt is written exactly when the project    *)
(* declares scripts or plugins; its groups are in ascending order of name,  *)
(* the lines of a group are in ascending order, and each line is an entry   *)
(* with the whitespace around "=" removed.                                  *)
(***************************************************************************)
C12_LinesAscendingAndStrippedAroundEq ==
    pc = "done" =>
        LET files == EntriesNamed(wheel, EntryPointsPath)
        IN  /\ files # <<>> <=> EntryPointsDeclared
            /\ files # <<>> =>
                   LET secs == ParseSections(Lines(files[1].data))
                   IN  /\ Ascending(GroupNames(secs))
                       /\ SeqToSet(GroupNames(secs)) = SeqToSet(GroupNames(EntryPointGroups))
                       /\ \A i \in 1..Len(secs) :
                              /\ Ascending(secs[i].eps)
                              /\ SeqToSet(secs[i].eps) =
                                     {StripAroundEq(e) : e \in
                                          SeqToSet(GroupEps(EntryPointGroups, secs[i].group))}

(***************************************************************************)
(* C12, amended.  entry_points.txt is written exactly when the project's    *)
(* configuration has a scripts or a plugins table; it has one section per   *)
(* group, in ascending order of group name; the lines of a group are its    *)
(* entries taken in ascending order of the entries as declared, each        *)
(* written with every space removed, wherever the space stands.             *)
(***************************************************************************)
C12_EntriesSortedThenSpacesRemoved ==
    pc = "done" =>
        LET files == EntriesNamed(wheel, EntryPointsPath)
        IN  /\ files # <<>> <=> EntryPointsDeclared
            /\ Len(files) <= 1
            /\ files # <<>> =>
                   LET secs == ParseSections(Lines(files[1].data))
                   IN  /\ Len(secs) = Len(EntryPointGroups)
                       /\ \A i, j \in 1..Len(secs) :
                              i < j => StrLess(secs[i].group, secs[j].group)
                       /\ SeqToSet(GroupNames(secs)) = SeqToSet(GroupNames(EntryPointGroups))
                       /\ \A i \in 1..Len(secs) :
                              \E e \in Orders(SeqToSet(GroupEps(EntryPointGroups,
                                                                secs[i].group))) :
                                  /\ Ascending(e)
                                  /\ secs[i].eps = [k \in 1..Len(e) |-> RemoveSpaces(e[k])]

\* an archive whose entry_points.txt has the two groups, the group
\* console_scripts with its two lines
C12_TwoGroupsWitness ==
    /\ pc = "done"
    /\ EntryPointsDeclared
    /\ LET secs == ParseSections(Lines(EntriesNamed(wheel, EntryPointsPath)[1].data))
       IN  Len(secs) = 2 /\ Len(secs[2].eps) = 2

(***************************************************************************)
(* C13.  When a native build is required and the host offers no tag, the    *)
(* step that raises the tag failure starts from a state in which no         *)
(* temporary archive file exists and no entry has been written.             *)
(***************************************************************************)
C13_TagFailureBeforeArchive ==
    [][(WriteWheelFile /\ TagRaises) => (tmp = "none" /\ wheel = <<>>)]_vars

(***************************************************************************)
(* The states of a build, by the position of build(): Init 1, Collecting 2, *)
(* Building 3, Writing 4, Finalizing 5, Done 6, Failed 7.                   *)
(***************************************************************************)
PhaseOf(p) ==
    CASE p = "idle" -> 0
      [] p \in {"mkdir", "mkstemp", "chmod"} -> 1
      [] p \in {"copy_module", "add_files"} -> 2
      [] p \in {"build", "run_build", "glob_lib", "add_lib"} -> 3
      [] p \in {"entry_points", "licenses", "wheel_file", "metadata_file", "record"} -> 4
      [] p \in {"close", "unlink", "move", "copying", "remove_tmp", "built"} -> 5
      [] p = "done" -> 6
      [] p = "failed" -> 7
StepFails == Raise \/ (WriteWheelFile /\ TagRaises) \/ (wheel' # wheel /\ records' = records /\ wheel' # <<>>)
InOrder ==
    /\ pc \notin {"done", "failed"} => PhaseOf(pc') >= PhaseOf(pc)
    /\ pc = "run_build" => Truthy(project.build_script)
    /\ StepFails => pc' = "failed"
    /\ pc = "failed" => pc' = "failed"
EntryWritten == wheel' # wheel /\ wheel' # <<>>

(***************************************************************************)
(* C14.  As stated: a build goes through Init, Collecting, Building (only   *)
(* with a native build), Writing, Finalizing and Done in this order, an     *)
(* error leads to Failed and nowhere else, and when a native build is       *)
(* required no entry is written before the build command has completed.     *)
(***************************************************************************)
C14_NoEntryBeforeNativeBuild ==
    [][/\ InOrder
       /\ (EntryWritten /\ Truthy(project.build_script)) => ran_build]_vars

(***************************************************************************)
(* C15.  Once the native build step is over, the entries it added are       *)
(* exactly the files of the first lib.* directory that are no directory,    *)
(* not excluded and whose archive path no collected entry has; no entry of  *)
(* the collector is duplicated; without a lib.* directory nothing is added. *)
(***************************************************************************)
CollectedNames == {wheel[i].filename : i \in 1..ProjectFilesWritten}
ExpectedBuildOutputs ==
    IF build_dir = <<>> THEN {}
    ELSE {f \in Disk :
              /\ f.path \in GlobLibFiles(build_dir[1])
              /\ ~S_ISDIR(f.st_mode)
              /\ ~is_excluded(AsPosix(f.path))
              /\ AsPosix(RelativeTo(f.path, LibPath(build_dir[1]))) \notin CollectedNames}
NameAndData(S) == {<<e.filename, e.data>> : e \in S}

C15_BuildOutputsExact ==
    (ran_build /\ PhaseOf(pc) \in 4..6) =>
        LET n == ProjectFileCount
            m == Cardinality(ExpectedBuildOutputs)
        IN  /\ Len(wheel) >= n + m
            /\ NameAndData({wheel[i] : i \in (n + 1)..(n + m)}) =
                   {<<AsPosix(RelativeTo(f.path, LibPath(build_dir[1]))), f.data>> :
                        f \in ExpectedBuildOutputs}
            /\ \A i \in (n + m + 1)..Len(wheel) : StartsWith(wheel[i].filename, dist_info)
            /\ \A i \in 1..n : \A j \in (n + 1)..Len(wheel) :
                   wheel[i].filename # wheel[j].filename

(***************************************************************************)
(* C16.  The native build step leaves the process in the directory it was   *)
(* entered in: the directory is saved before os.chdir, it is the working    *)
(* directory again when the build command has succeeded, when it has        *)
(* failed, and when os.chdir itself has failed; no other step changes the   *)
(* working directory.                                                       *)
(***************************************************************************)
C16_WorkingDirectoryRestored ==
    [][/\ pc = "build" =>
              IF pc' = "run_build" THEN current_path' = cwd ELSE cwd' = cwd
       /\ pc = "run_build" => (pc' \in {"glob_lib", "failed"} /\ cwd' = current_path)
       /\ pc \notin {"build", "run_build"} => cwd' = cwd]_vars

\* a build that failed in the native build step, after the project files were
\* written: os.chdir or the build command raised
C16_BuildStepFailedWitness ==
    /\ pc = "failed"
    /\ Truthy(project.build_script)
    /\ ~ran_build
    /\ ProjectFileCount > 0
    /\ Len(wheel) = ProjectFileCount
    /\ to_add = <<>>
    /\ cwd = StartDir

(***************************************************************************)
(* C17.  After every build(), the first of a WheelBuilder or a later one,   *)
(* the lines of RECORD name the entries written by that call and no other:  *)
(* one line per entry of the archive, in the archive's order.               *)
(***************************************************************************)
C17_RecordOfThisBuildOnly ==
    pc = "done" => RowPaths(RecordRows(wheel)) = namelist(wheel)

(***************************************************************************)
(* C18.  For every entry written by _add_file, the record appended with it  *)
(* holds the sha256 and the length of the bytes of the entry, also when     *)
(* another process rewrites the source file while _add_file runs.           *)
(***************************************************************************)
C18_RecordMatchesWrittenBytes ==
    pc # "failed" =>
        \A i \in 1..Len(wheel) :
            LET r == records[Len(records) - Len(wheel) + i]
            IN  wheel[i].filename \notin GeneratedPaths =>
                    /\ r.hash = HashDigest(wheel[i].data)
                    /\ r.size = Len(wheel[i].data)

(***************************************************************************)
(* C19.  Once the collector is done, the archive paths of the project files *)
(* are exactly those of the files of an include rule that is unscoped or    *)
(* scoped to wheel, which are no directory, have no component __pycache__   *)
(* in their path, have not the suffix .pyc, and are not excluded when the   *)
(* rule is a package; an excluded file of a plain rule is collected.        *)
(***************************************************************************)
RuleFiles ==
    UNION {{<<include, file>> : file \in SeqToSet(include.elements)} :
               include \in SeqToSet(project.includes)}
ArchivePathOf(include, file) ==
    AsPosix(IF include.is_package /\ include.source
            THEN RelativeTo(file, include.base)
            ELSE RelativeTo(file, ProjectPath))
ClaimedToCollect(include, file) ==
    /\ include.formats = {} \/ "wheel" \in include.formats
    /\ ~IsDir(file)
    /\ StrPycache \notin SeqToSet(file)
    /\ Suffix(file) # StrPyc
    /\ ~(include.is_package /\ is_excluded(ArchivePathOf(include, file)))

C19_CollectorFilter ==
    PhaseOf(pc) \in 3..6 =>
        CollectedNames =
            {ArchivePathOf(x[1], x[2]) : x \in {y \in RuleFiles : ClaimedToCollect(y[1], y[2])}}

====
